---------------------------- MODULE Spec2Model ----------------------------
(***************************************************************************)
(* Model of the latency middlebox node (latency-plugin/latency/node.c):    *)
(* the per-packet inspection loop latency_node_fn, the session table, the  *)
(* timer wheel, the NAT-like rewrite and the checksum recomputation.       *)
(*                                                                         *)
(* node.c is modelled statement by statement.  The helpers it calls that   *)
(* live in latency.h (make_key, get_session_from_key, create_session,      *)
(* update_state, start_timer, update_timer, expire_timers,                 *)
(* ip_nat_translation, the estimators, get_new_dst, is_quic,               *)
(* tcp_options_parse_mod) are modelled from the design document.           *)
(***************************************************************************)
EXTENDS Integers, Sequences, FiniteSets, TLC

(***************************************************************************)
(* Program constants (node.c)                                              *)
(***************************************************************************)
UDP_PROTOCOL == 17
TCP_PROTOCOL == 6

SIZE_IP4 == 20
SIZE_UDP == 8
SIZE_TCP == 20
SIZE_QUIC_MIN == 3
SIZE_PLUS == 20
SIZE_PLUS_EXT_HELLO == 3

IS_LONG == 128
HAS_ID == 64
LATENCY_TYPE == 31
SIZE_TYPE == 1

P_NUMBER_8 == 1
P_NUMBER_16 == 2
P_NUMBER_32 == 3

SIZE_NUMBER_8 == 1
SIZE_NUMBER_16 == 2
SIZE_NUMBER_32 == 4

SIZE_ID == 8
SIZE_VERSION == 4
SIZE_LATENCY_SPIN == 1

TIMEOUT == 300

IP4_LOOKUP == 0

(***************************************************************************)
(* Widths of the C integer types the loop computes in                      *)
(***************************************************************************)
U8 == 256
U16 == 65536

(***************************************************************************)
(* Bounds of the model                                                     *)
(***************************************************************************)
\* the clock stops advancing at this tick
MaxTime == 301
\* no packet is offered to a session whose pkt_count has reached this value
MaxPktCount == 3
\* longest input frame of the frame specification
MaxFrameLen == 3
\* the clock of the alias specification stops advancing at this tick
MaxAliasTime == 450

(***************************************************************************)
(* Configuration: addresses, ports, destination map                        *)
(***************************************************************************)
\* IPv4 addresses of the model: two initiators, the address they send to,
\* a third host, and the two backends of the destination map
IP_ANY == 0
IP_INIT_A == 1
IP_SERVICE == 2
IP_BACKEND == 4
IP_BACKEND_Q == 6
IP_INIT_B == 7

\* ports: an ephemeral client port, a mapped service port, the QUIC port
PORT_CLIENT == 5
PORT_SERVICE == 8
QUIC_PORT == 9

\* session records the pool is sized for
POOL_SIZE == 3

\* protocol variants of a session (typeNames order)
P_TCP == "TCP"
P_QUIC == "QUIC"
P_PLUS == "PLUS"

LATENCY_STATE_ACTIVE == "ACTIVE"
LATENCY_STATE_ERROR == "ERROR"

\* bitwise exclusive or of two naturals
RECURSIVE Xor(_, _)
Xor(a, b) ==
  IF a = 0 THEN b
  ELSE IF b = 0 THEN a
  ELSE (((a % 2) + (b % 2)) % 2) + 2 * Xor(a \div 2, b \div 2)

\* x & mask for a mask that is a single bit
BitSet(x, bit) == (x \div bit) % 2 = 1


(***************************************************************************)
(* State                                                                   *)
(***************************************************************************)
VARIABLES
  now,             \* vlib_time_now, in timer-wheel ticks of 100 ms
  sessions,        \* the session pool: index -> session record
  hash,            \* the session table: key -> index
  wheel,           \* the timer wheel: set of <<expiry tick, session index>>
  frame,           \* the input frame: the vector of buffer indices
  n_left_from,     \* handles of the frame not yet processed
  to_next,         \* handles enqueued to the current next frame
  n_left_to_next,  \* free slots of the current next frame
  delivered,       \* handles of this frame handed to ip4-lookup so far
  b_in,            \* the buffer of the last packet as it entered
  b0,              \* the buffer of the last packet as it left
  trace            \* what the last iteration did

vars == <<now, sessions, hash, wheel, frame, n_left_from, to_next,
          n_left_to_next, delivered, b_in, b0, trace>>

(***************************************************************************)
(* Packets and buffers                                                     *)
(***************************************************************************)
\* one's-complement style sums over the bytes each checksum covers
ip4_tcp_udp_compute_checksum(p) ==
  (p.src + p.dst + p.protocol + p.sport + p.dport + p.hop_c) % (U16 - 1)

ip4_header_checksum(p) ==
  (p.ver + p.protocol + p.src + p.dst) % (U16 - 1)

\* a packet as its sender emitted it: both checksums cover its bytes
Sealed(p) ==
  [p EXCEPT !.l4_csum = ip4_tcp_udp_compute_checksum(p),
            !.ip_csum = ip4_header_checksum(p)]

Pkt(len, ver, protocol, src, dst, sport, dport) ==
  [len |-> len, ver |-> ver, protocol |-> protocol, src |-> src, dst |-> dst,
   sport |-> sport, dport |-> dport,
   qtype |-> 0, magic_ok |-> FALSE, extended |-> FALSE, cat |-> 0,
   pcf_type |-> 0, ii |-> 0, hop_c |-> 0,
   syn |-> FALSE, ack |-> FALSE, opts_ok |-> TRUE,
   l4_csum |-> 0, ip_csum |-> 0]

\* the buffer cursor every packet enters latency_node_fn with
ENTRY_DATA == 14

Buffer(p) == [pkt |-> p, current_data |-> ENTRY_DATA, current_length |-> p.len]

NoPkt == Pkt(0, 0, 0, 0, 0, 0, 0)

(***************************************************************************)
(* Session table, pool, destination map (latency.h)                        *)
(***************************************************************************)
NoSession ==
  [index |-> 0, p_type |-> "none", key |-> <<0, 0, 0, 0>>,
   key_reverse |-> <<0, 0, 0, 0>>, init_src_port |-> 0, init_src_ip |-> 0,
   new_dst_ip |-> 0, pkt_count |-> 0, state |-> "none", est |-> 0,
   \* session->plus->cat, 0 for the other variants
   cat |-> 0,
   \* history, not fields of the session: the destination address and
   \* port of the packet that created it, and the number of packets that
   \* reached the increment of pkt_count
   first_dst |-> 0, first_dport |-> 0, reached |-> 0]

\* the 64-bit key: src ^ dst address, src ^ dst port, protocol
make_key(src_ip, dst_ip, src_p, dst_p, protocol) ==
  <<Xor(src_ip, dst_ip), Xor(src_p, dst_p), protocol, 0>>

\* a PLUS key built from the UDP 4-tuple alone
make_plus_key_NoCat(src_ip, dst_ip, src_p, dst_p, protocol, cat) ==
  <<Xor(src_ip, dst_ip), Xor(src_p, dst_p), protocol, 0>>

\* the PLUS key folds the CAT in
make_plus_key(src_ip, dst_ip, src_p, dst_p, protocol, cat) ==
  <<Xor(src_ip, dst_ip), Xor(src_p, dst_p), protocol, cat>>

\* index of the session a key resolves to, 0 (NULL) when there is none
get_session_from_key(h, kv) == IF kv \in DOMAIN h THEN h[kv] ELSE 0

\* hash[kv] := index, replacing what the key pointed to
update_state(h, kv, index) ==
  [k \in (DOMAIN h) \cup {kv} |-> IF k = kv THEN index ELSE h[k]]

\* destination port -> backend address, 0 when the port is not configured
get_new_dst(port) ==
  IF port = PORT_SERVICE THEN IP_BACKEND
  ELSE IF port = QUIC_PORT THEN IP_BACKEND_Q
  ELSE 0

is_quic(src_port, dst_port) == src_port = QUIC_PORT \/ dst_port = QUIC_PORT

\* a free slot of the pool: the lowest index not in use
FreeIndex(pool) ==
  CHOOSE i \in 1..(Cardinality(DOMAIN pool) + 1) :
    /\ i \notin DOMAIN pool
    /\ \A j \in 1..(i - 1) : j \in DOMAIN pool

\* the pool has no free slot left
PoolFull(pool) == Cardinality(DOMAIN pool) >= POOL_SIZE

\* the index create_session returns: a free slot, or, when the pool is
\* full, whatever the allocator yields (slot): a slot in use, or a slot
\* past the configured size
AllocIndex(pool, slot) == IF PoolFull(pool) THEN slot ELSE FreeIndex(pool)

\* the values slot can take
Slots(pool) == IF PoolFull(pool) THEN 1..(POOL_SIZE + 1) ELSE {0}

\* allocate a zeroed session of the given variant, state ACTIVE
create_session(pool, p_type, slot) ==
  LET i == AllocIndex(pool, slot)
  IN  [k \in (DOMAIN pool) \cup {i} |->
         IF k = i
         THEN [NoSession EXCEPT !.index = i, !.p_type = p_type,
                                !.state = LATENCY_STATE_ACTIVE]
         ELSE pool[k]]

(***************************************************************************)
(* Timer wheel (latency.h)                                                 *)
(***************************************************************************)
start_timer(w, index, ticks, t) == w \cup {<<t + ticks, index>>}

\* a re-arm that leaves the old entry in the wheel
update_timer_KeepsOld(w, index, ticks, t) == w \cup {<<t + ticks, index>>}

update_timer(w, index, ticks, t) ==
  {e \in w : e[2] # index} \cup {<<t + ticks, index>>}

\* the sessions whose slot the wheel has passed at time t
Expired(w, t) == {e[2] : e \in {x \in w : x[1] <= t}}

\* a timer wheel that is never advanced
expire_timers_Never(st, t) == st

\* expire_timers: each expired session loses both keys and its pool slot
expire_timers(st, t) ==
  LET dead == Expired(st.wheel, t) \cap DOMAIN st.sessions
      gone == {st.sessions[i].key : i \in dead}
                \cup {st.sessions[i].key_reverse : i \in dead}
  IN  [sessions |-> [i \in (DOMAIN st.sessions) \ dead |-> st.sessions[i]],
       hash |-> [k \in (DOMAIN st.hash) \ gone |-> st.hash[k]],
       wheel |-> {e \in st.wheel : e[1] > t}]

(***************************************************************************)
(* The per-packet context: the locals of one iteration of the inner loop   *)
(* of latency_node_fn together with the state the iteration works on.      *)
(*   session = 0 is the NULL session pointer;                              *)
(*   done    = the iteration has jumped to skip_packet.                    *)
(***************************************************************************)
Context(p, st, t, slot) ==
  [pkt |-> p, current_data |-> ENTRY_DATA, current_length |-> p.len,
   slot |-> slot,
   total_advance |-> 0, make_measurement |-> TRUE, is_udp |-> TRUE,
   session |-> 0, done |-> FALSE, entered |-> FALSE, t |-> t,
   sessions |-> st.sessions, hash |-> st.hash, wheel |-> st.wheel,
   \* what the iteration did, for the trace
   path |-> "none", why |-> "none", overread |-> FALSE, created |-> FALSE,
   est_called |-> FALSE, est_dir |-> "none", counted |-> FALSE,
   nat |-> "none", hop_inc |-> FALSE, csum_done |-> FALSE,
   rearmed |-> FALSE]

\* vlib_buffer_advance (b0, l): move the cursor, current_length is a u16
vlib_buffer_advance(c, l) ==
  [c EXCEPT !.current_data = @ + l,
            !.current_length = (@ - l) % U16]

\* total_advance += l on a u8
AddAdvance(c, l) == [c EXCEPT !.total_advance = (@ + l) % U8]

\* the pair of statements the parser uses for every header it steps over
Advance(c, l) == AddAdvance(vlib_buffer_advance(c, l), l)

\* a load of n bytes at the cursor; it runs past the buffer end when fewer
\* than n bytes remain
Load(c, n) == [c EXCEPT !.overread = @ \/ c.current_length < n]

\* goto skip_packet
Goto_skip(c, reason) == [c EXCEPT !.done = TRUE, !.why = reason]

(***************************************************************************)
(* QUIC header (node.c 199-299)                                            *)
(***************************************************************************)
\* the long header with the version stepped over but not accounted for
QuicLongHeader_NoVersionTotal(c) ==
  LET c1 == Advance(c, SIZE_TYPE)
      c2 == Advance(Load(c1, SIZE_ID), SIZE_ID)
      c3 == Advance(Load(c2, SIZE_NUMBER_32), SIZE_NUMBER_32)
      c4 == vlib_buffer_advance(Load(c3, SIZE_VERSION), SIZE_VERSION)
  IN  c4

\* long header: type, connection ID, packet number, version
QuicLongHeader(c) ==
  LET c1 == Advance(c, SIZE_TYPE)
      c2 == Advance(Load(c1, SIZE_ID), SIZE_ID)
      c3 == Advance(Load(c2, SIZE_NUMBER_32), SIZE_NUMBER_32)
      c4 == Advance(Load(c3, SIZE_VERSION), SIZE_VERSION)
  IN  c4

\* the packet number of a short header, by the low bits of the type byte
QuicPacketNumber(c) ==
  LET n == c.pkt.qtype % (LATENCY_TYPE + 1)
      size == IF n = P_NUMBER_8 THEN SIZE_NUMBER_8
              ELSE IF n = P_NUMBER_16 THEN SIZE_NUMBER_16
              ELSE SIZE_NUMBER_32
  IN  IF n \in {P_NUMBER_8, P_NUMBER_16, P_NUMBER_32}
      THEN IF c.current_length >= size
           THEN Advance(Load(c, size), size)
           ELSE Goto_skip(c, "short-header")
      ELSE Goto_skip(c, "short-header")

\* short header: type, optional connection ID, packet number
QuicShortHeader(c) ==
  LET c1 == Advance(c, SIZE_TYPE)
      c2 == IF BitSet(c.pkt.qtype, HAS_ID) /\ c1.current_length >= SIZE_ID
            THEN Advance(Load(c1, SIZE_ID), SIZE_ID)
            ELSE c1
  IN  QuicPacketNumber(c2)

\* the spin / measurement byte that follows either header
QuicMeasurement(c) ==
  IF c.done THEN c
  ELSE IF c.current_length >= SIZE_LATENCY_SPIN
       THEN Load(c, SIZE_LATENCY_SPIN)
       ELSE Goto_skip(c, "short-header")

QuicHeader(c) ==
  LET c1 == [Load(c, SIZE_TYPE) EXCEPT !.path = P_QUIC]
  IN  QuicMeasurement(IF BitSet(c.pkt.qtype, IS_LONG)
                      THEN QuicLongHeader(c1)
                      ELSE QuicShortHeader(c1))

(***************************************************************************)
(* Session lookup or creation (node.c 301-345, 359-402, 459-499)           *)
(***************************************************************************)
\* the first packet of a flow: create the session, install both keys,
\* start the timer
NewSession(c, p_type, kv, kv_reverse, new_dst_ip) ==
  LET pool == create_session(c.sessions, p_type, c.slot)
      index == AllocIndex(c.sessions, c.slot)
      h1 == update_state(c.hash, kv, index)
      h2 == update_state(h1, kv_reverse, index)
      s == [pool[index] EXCEPT !.key = kv,
                               !.init_src_port = c.pkt.sport,
                               !.init_src_ip = c.pkt.src,
                               !.new_dst_ip = new_dst_ip,
                               !.key_reverse = kv_reverse,
                               !.pkt_count = 1,
                               !.cat = IF p_type = P_PLUS
                                       THEN c.pkt.cat ELSE 0,
                               !.first_dst = c.pkt.dst,
                               !.first_dport = c.pkt.dport]
  IN  [c EXCEPT !.sessions = [pool EXCEPT ![index] = s],
                !.hash = h2,
                !.wheel = start_timer(c.wheel, index, TIMEOUT, c.t),
                !.session = index,
                !.created = TRUE]

\* lookup or create without the check of the destination map
LookupOrCreate_NoMapCheck(c, p_type, kv, kv_reverse) ==
  LET found == get_session_from_key(c.hash, kv)
  IN  IF found # 0 THEN [c EXCEPT !.session = found]
      ELSE NewSession(c, p_type, kv, kv_reverse, get_new_dst(c.pkt.dport))

\* kv is the key of the packet, kv_reverse the key of the rewritten flow
LookupOrCreate(c, p_type, kv, kv_reverse) ==
  LET found == get_session_from_key(c.hash, kv)
      new_dst_ip == get_new_dst(c.pkt.dport)
  IN  IF found # 0 THEN [c EXCEPT !.session = found]
      ELSE IF new_dst_ip = 0 THEN Goto_skip(c, "unknown-destination")
      ELSE NewSession(c, p_type, kv, kv_reverse, new_dst_ip)

QuicSession(c) ==
  LET p == c.pkt
  IN  LookupOrCreate(c, P_QUIC,
        make_key(p.src, p.dst, p.sport, p.dport, p.protocol),
        make_key(0, get_new_dst(p.dport), p.sport, p.dport, p.protocol))

PlusSession(c) ==
  LET p == c.pkt
  IN  LookupOrCreate(c, P_PLUS,
        make_plus_key(p.src, p.dst, p.sport, p.dport, p.protocol, p.cat),
        make_plus_key(0, get_new_dst(p.dport), p.sport, p.dport, p.protocol,
                      p.cat))

TcpSession(c) ==
  LET p == c.pkt
  IN  LookupOrCreate(c, P_TCP,
        make_key(p.src, p.dst, p.sport, p.dport, p.protocol),
        make_key(0, get_new_dst(p.dport), p.sport, p.dport, p.protocol))

(***************************************************************************)
(* Estimators (latency.h): the estimator state is the number of samples    *)
(* it has been fed; the direction is src_port = init_src_port.             *)
(***************************************************************************)
\* an estimator that takes the port of the packet for the initiator's
update_rtt_estimate_RebindsPort(c) ==
  [c EXCEPT !.sessions[c.session].est = @ + 1,
            !.sessions[c.session].init_src_port = c.pkt.sport,
            !.est_called = TRUE]

update_rtt_estimate(c) ==
  LET s == c.sessions[c.session]
  IN  [c EXCEPT !.sessions[c.session].est = s.est + 1,
                !.est_called = TRUE,
                !.est_dir = IF c.pkt.sport = s.init_src_port
                            THEN "forward" ELSE "reverse"]

QuicPath(c) ==
  LET c1 == QuicHeader(c)
      c2 == IF c1.done THEN c1 ELSE QuicSession(c1)
  IN  IF c2.done THEN c2 ELSE update_rtt_estimate(c2)

(***************************************************************************)
(* PLUS (node.c 352-429)                                                   *)
(***************************************************************************)
\* the hop-count extension header
PlusExtended(c) ==
  IF c.pkt.extended /\ c.current_length >= SIZE_PLUS + SIZE_PLUS_EXT_HELLO
  THEN IF c.pkt.pcf_type = 1 /\ c.pkt.ii = 0
       THEN [Load(c, SIZE_PLUS_EXT_HELLO)
               EXCEPT !.pkt.hop_c = (@ + 1) % U8, !.hop_inc = TRUE]
       ELSE Load(c, SIZE_PLUS_EXT_HELLO)
  ELSE c

PlusPath(c) ==
  IF c.current_length >= SIZE_PLUS
  THEN LET c1 == [Advance(Load(c, SIZE_PLUS), SIZE_PLUS) EXCEPT !.path = P_PLUS]
       IN  IF c.pkt.magic_ok
           THEN LET c2 == PlusSession(c1)
                IN  IF c2.done THEN c2
                    ELSE PlusExtended(update_rtt_estimate(c2))
           ELSE c1
  ELSE c

(***************************************************************************)
(* TCP (node.c 430-509)                                                    *)
(***************************************************************************)
\* 0 when the options parse, nonzero when they are ill-formed
tcp_options_parse_mod(p) == IF p.opts_ok THEN 0 ELSE 1

\* the TCP path with SYN+ACK segments measured like the others
TcpPath_MeasuresSynAck(c) ==
  LET c1 == [Advance(Load(c, SIZE_TCP), SIZE_TCP)
               EXCEPT !.is_udp = FALSE, !.path = P_TCP]
      c3 == TcpSession(c1)
  IN  IF tcp_options_parse_mod(c.pkt) # 0 THEN Goto_skip(c1, "bad-options")
      ELSE IF c3.done THEN c3
      ELSE update_rtt_estimate(c3)

TcpPath(c) ==
  LET c1 == [Advance(Load(c, SIZE_TCP), SIZE_TCP)
               EXCEPT !.is_udp = FALSE, !.path = P_TCP]
      c2 == IF c.pkt.syn /\ c.pkt.ack
            THEN [c1 EXCEPT !.make_measurement = FALSE] ELSE c1
      c3 == TcpSession(c2)
  IN  IF tcp_options_parse_mod(c.pkt) # 0 THEN Goto_skip(c1, "bad-options")
      ELSE IF c3.done THEN c3
      ELSE IF c3.make_measurement THEN update_rtt_estimate(c3)
      ELSE c3

(***************************************************************************)
(* Header dispatch (node.c 179-198, 430-438)                               *)
(***************************************************************************)
ParseIp4(c) ==
  LET c1 == [Advance(Load(c, SIZE_IP4), SIZE_IP4) EXCEPT !.entered = TRUE]
  IN  IF c.pkt.ver = 6 THEN Goto_skip(c1, "ipv6") ELSE c1

Transport(c) ==
  IF c.done THEN c
  ELSE IF c.pkt.protocol = UDP_PROTOCOL /\ c.current_length >= SIZE_UDP
       THEN LET c1 == [Advance(Load(c, SIZE_UDP), SIZE_UDP)
                         EXCEPT !.is_udp = TRUE]
            IN  IF /\ is_quic(c.pkt.sport, c.pkt.dport)
                   /\ c1.current_length >= SIZE_QUIC_MIN
                THEN QuicPath(c1)
                ELSE PlusPath(c1)
       ELSE IF c.pkt.protocol = TCP_PROTOCOL /\ c.current_length >= SIZE_TCP
            THEN TcpPath(c)
            ELSE c

(***************************************************************************)
(* Count, rewrite, checksums, timer (node.c 511-546)                       *)
(***************************************************************************)
\* the translation with the forward direction left as it came
ip_nat_translation_NoForward(p, init_src_ip, new_dst_ip) ==
  IF p.src = init_src_ip
  THEN [ok |-> TRUE, dir |-> "forward", pkt |-> p]
  ELSE [ok |-> FALSE, dir |-> "mismatch", pkt |-> p]

\* NAT-like translation (latency.h): FALSE when the packet is neither from
\* the initiator nor from the backend
ip_nat_translation(p, init_src_ip, new_dst_ip) ==
  IF p.src = init_src_ip
  THEN [ok |-> TRUE, dir |-> "forward", pkt |-> [p EXCEPT !.dst = new_dst_ip]]
  ELSE IF p.src = new_dst_ip
       THEN [ok |-> TRUE, dir |-> "reverse",
             pkt |-> [p EXCEPT !.src = p.dst, !.dst = init_src_ip]]
       ELSE [ok |-> FALSE, dir |-> "mismatch", pkt |-> p]

\* udp0->checksum / tcp0->checksum, then ip0->checksum
UpdateChecksums(c) ==
  LET p1 == [c.pkt EXCEPT !.l4_csum = 0]
      p2 == [p1 EXCEPT !.l4_csum = ip4_tcp_udp_compute_checksum(p1)]
      p3 == [p2 EXCEPT !.ip_csum = ip4_header_checksum(p2)]
  IN  [c EXCEPT !.pkt = p3, !.csum_done = TRUE]

\* the timer re-armed whatever the state of the session
UpdateTimer_Always(c) ==
  [c EXCEPT !.wheel = update_timer(c.wheel, c.session, TIMEOUT, c.t),
            !.rearmed = TRUE]

\* the switch on session->state
UpdateTimer(c) ==
  IF c.sessions[c.session].state = LATENCY_STATE_ACTIVE
  THEN [c EXCEPT !.wheel = update_timer(c.wheel, c.session, TIMEOUT, c.t),
                 !.rearmed = TRUE]
  ELSE c

\* a packet passes the increment step and pkt_count stays as it is
CountPacket_NoIncrement(c) ==
  [c EXCEPT !.sessions[c.session].reached = @ + 1,
            !.counted = TRUE]

\* session->pkt_count ++ (a u32; the model stops a session at MaxPktCount,
\* far below the wrap)
CountPacket(c) ==
  [c EXCEPT !.sessions[c.session].pkt_count = @ + 1,
            !.sessions[c.session].reached = @ + 1,
            !.counted = TRUE]

Rewrite(c) ==
  IF c.done THEN c
  ELSE IF c.session = 0 THEN Goto_skip(c, "no-session")
  ELSE LET c1 == CountPacket(c)
           s == c1.sessions[c1.session]
           n == ip_nat_translation(c1.pkt, s.init_src_ip, s.new_dst_ip)
           c2 == [c1 EXCEPT !.pkt = n.pkt, !.nat = n.dir]
       IN  IF ~n.ok THEN Goto_skip(c2, "rewrite-mismatch")
           ELSE UpdateTimer(UpdateChecksums(c2))

\* the skip_packet label: move the cursor back by total_advance
skip_packet(c) == vlib_buffer_advance(c, -c.total_advance)

\* one iteration of the inner loop on buffer contents p, after the timer
\* wheel has been advanced (node.c 154-569)
Inspect(p, st, t, slot) ==
  LET c0 == Context(p, st, t, slot)
  IN  IF c0.current_length >= SIZE_IP4
      THEN skip_packet(Rewrite(Transport(ParseIp4(c0))))
      ELSE c0

(***************************************************************************)
(* Inputs: the packets and frames the host hands to the node               *)
(***************************************************************************)
\* lengths of the headers in front of each payload
LEN_UDP == SIZE_IP4 + SIZE_UDP
LEN_TCP == SIZE_IP4 + SIZE_TCP

TcpFlags == {<<TRUE, TRUE>>, <<TRUE, FALSE>>, <<FALSE, TRUE>>}

TcpPacket(a, len, f, o) ==
  Sealed([Pkt(len, 4, TCP_PROTOCOL, a[1], a[2], a[3], a[4])
            EXCEPT !.syn = f[1], !.ack = f[2], !.opts_ok = o])

QuicPacket(a, len, qtype) ==
  Sealed([Pkt(len, 4, UDP_PROTOCOL, a[1], a[2], a[3], a[4])
            EXCEPT !.qtype = qtype])

PlusPacket(a, len, h, hop, cat) ==
  Sealed([Pkt(len, 4, UDP_PROTOCOL, a[1], a[2], a[3], a[4])
            EXCEPT !.magic_ok = h[1], !.extended = h[2], !.pcf_type = h[3],
                   !.ii = h[4], !.hop_c = hop, !.cat = cat])

\* <<src, dst, sport, dport>> of the timed specification: two initiators
\* that address the same service, the answers of the service address, and
\* a backend that answers a third host
TimedAddrs ==
  {<<IP_INIT_A, IP_SERVICE, PORT_CLIENT, PORT_SERVICE>>,
   <<IP_INIT_B, IP_SERVICE, PORT_CLIENT, PORT_SERVICE>>,
   <<IP_SERVICE, IP_INIT_A, PORT_SERVICE, PORT_CLIENT>>,
   <<IP_BACKEND, IP_INIT_B, PORT_SERVICE, PORT_CLIENT>>,
   <<IP_BACKEND, IP_INIT_B, PORT_CLIENT, PORT_SERVICE>>}

TimedPackets ==
  {TcpPacket(a, LEN_TCP, f, o) : a \in TimedAddrs, f \in TcpFlags, o \in BOOLEAN}

\* one flow and its answers, per transport
FlowAddrs(port) ==
  {<<IP_INIT_A, IP_SERVICE, PORT_CLIENT, port>>,
   <<IP_SERVICE, IP_INIT_A, port, PORT_CLIENT>>}

\* bytes after the UDP header of the QUIC packets, and their type bytes:
\* long header, short header with 8/16/32-bit packet number, short header
\* with connection ID, and an unknown packet-number encoding
QuicLens == {2, 3, 5, 6, 10, 17, 18}
QuicTypes == {IS_LONG, P_NUMBER_8, P_NUMBER_16, P_NUMBER_32,
              HAS_ID + P_NUMBER_8, 0}

\* bytes after the UDP header of the PLUS packets
PlusLens == {19, 20, 42, 43}
\* <<magic matches, EXTENDED, PCF_type, II>>
PlusHeaders == {<<TRUE, FALSE, 1, 0>>, <<TRUE, TRUE, 1, 0>>,
                <<TRUE, TRUE, 2, 0>>, <<TRUE, TRUE, 1, 1>>,
                <<FALSE, TRUE, 1, 0>>}
HopCounts == {3, 255}

OddPackets ==
  {Sealed(Pkt(SIZE_IP4 - 1, 4, UDP_PROTOCOL, IP_INIT_A, IP_SERVICE,
              PORT_CLIENT, PORT_SERVICE)),
   Sealed(Pkt(LEN_TCP, 6, TCP_PROTOCOL, IP_INIT_A, IP_SERVICE,
              PORT_CLIENT, PORT_SERVICE)),
   Sealed(Pkt(LEN_TCP, 4, 1, IP_INIT_A, IP_SERVICE,
              PORT_CLIENT, PORT_SERVICE)),
   Sealed(Pkt(LEN_UDP - 1, 4, UDP_PROTOCOL, IP_INIT_A, IP_SERVICE,
              PORT_CLIENT, PORT_SERVICE)),
   Sealed(Pkt(LEN_TCP - 1, 4, TCP_PROTOCOL, IP_INIT_A, IP_SERVICE,
              PORT_CLIENT, PORT_SERVICE)),
   Sealed(Pkt(LEN_TCP, 4, TCP_PROTOCOL, IP_INIT_A, IP_SERVICE,
              PORT_CLIENT, PORT_CLIENT))}

AllPackets ==
  OddPackets
  \cup {TcpPacket(a, LEN_TCP, f, o) :
          a \in FlowAddrs(PORT_SERVICE), f \in TcpFlags, o \in BOOLEAN}
  \cup {QuicPacket(a, LEN_UDP + n, ty) :
          a \in FlowAddrs(QUIC_PORT), n \in QuicLens, ty \in QuicTypes}
  \cup {PlusPacket(a, LEN_UDP + n, h, hop, 1) :
          a \in FlowAddrs(PORT_SERVICE), n \in PlusLens, h \in PlusHeaders,
          hop \in HopCounts}

\* the first address tuple of FlowAddrs: initiator to service
Forward(port) == <<IP_INIT_A, IP_SERVICE, PORT_CLIENT, port>>

\* two PLUS associations on one UDP 4-tuple, both directions, with and
\* without the hop-count extension
CatPackets ==
  {PlusPacket(a, LEN_UDP + SIZE_PLUS + n, <<TRUE, n > 0, 1, 0>>, 3, cat) :
     a \in FlowAddrs(PORT_SERVICE), n \in {0, SIZE_PLUS + SIZE_PLUS_EXT_HELLO},
     cat \in {1, 2}}

\* one more flow than the pool has slots: a TCP flow, a QUIC flow and two
\* PLUS associations
PoolPackets ==
  {TcpPacket(Forward(PORT_SERVICE), LEN_TCP, <<FALSE, TRUE>>, TRUE),
   QuicPacket(Forward(QUIC_PORT), LEN_UDP + SIZE_QUIC_MIN, P_NUMBER_8)}
  \cup {PlusPacket(Forward(PORT_SERVICE), LEN_UDP + SIZE_PLUS,
                    <<TRUE, FALSE, 1, 0>>, 3, cat) : cat \in {1, 2}}

\* two initiators that address the same service on the same ports, and a
\* host that addresses the backend with the addresses the reverse key is
\* built from
AliasPackets ==
  {TcpPacket(a, LEN_TCP, <<FALSE, TRUE>>, TRUE) :
     a \in {<<IP_INIT_A, IP_SERVICE, PORT_CLIENT, PORT_SERVICE>>,
            <<IP_INIT_B, IP_SERVICE, PORT_CLIENT, PORT_SERVICE>>,
            <<IP_ANY, IP_BACKEND, PORT_CLIENT, PORT_SERVICE>>}}

\* the clock of the alias specification moves by half a TIMEOUT
AliasSteps == {TIMEOUT \div 2}

\* the frames of the frame specification: distinct buffer indices, any order
RECURSIVE Perms(_)
Perms(S) ==
  IF S = {} THEN {<<>>}
  ELSE UNION {{<<x>> \o q : q \in Perms(S \ {x})} : x \in S}

Frames == UNION {Perms(S) : S \in (SUBSET (1..MaxFrameLen)) \ {{}}}

FramePackets ==
  {TcpPacket(a, LEN_TCP, <<FALSE, TRUE>>, o) :
     a \in FlowAddrs(PORT_SERVICE), o \in BOOLEAN}
  \cup {Sealed(Pkt(SIZE_IP4 - 1, 4, UDP_PROTOCOL, IP_INIT_A, IP_SERVICE,
                   PORT_CLIENT, PORT_SERVICE))}

\* clock advances between two readings of vlib_time_now
TickSteps == {TIMEOUT - 1, TIMEOUT, TIMEOUT + 1}

(***************************************************************************)
(* The node function, one inner-loop iteration per step                    *)
(***************************************************************************)
NoTrace ==
  [session |-> 0, path |-> "none", why |-> "none", entered |-> FALSE,
   overread |-> FALSE, created |-> FALSE, est_called |-> FALSE,
   est_dir |-> "none", counted |-> FALSE, nat |-> "none",
   hop_inc |-> FALSE, csum_done |-> FALSE, rearmed |-> FALSE,
   total_advance |-> 0, t |-> 0, pre |-> NoSession, pre_expiry |-> {},
   lost |-> {}]

\* the record of an iteration: what it did, the session it resolved to as
\* it was before the packet, and the sessions the timer wheel removed
TraceOf(c, before, st) ==
  LET had == c.session # 0 /\ ~c.created
  IN  [session |-> c.session, path |-> c.path, why |-> c.why,
       entered |-> c.entered, overread |-> c.overread,
       created |-> c.created, est_called |-> c.est_called,
       est_dir |-> c.est_dir, counted |-> c.counted, nat |-> c.nat,
       hop_inc |-> c.hop_inc, csum_done |-> c.csum_done,
       rearmed |-> c.rearmed, total_advance |-> c.total_advance, t |-> c.t,
       pre |-> IF had THEN st.sessions[c.session] ELSE NoSession,
       pre_expiry |-> IF had
                      THEN {e[1] : e \in {x \in st.wheel : x[2] = c.session}}
                      ELSE {},
       lost |-> {[session |-> before.sessions[i],
                  expiry |-> {e[1] : e \in
                                {x \in before.wheel : x[2] = i}}] :
                   i \in (DOMAIN before.sessions) \ (DOMAIN st.sessions)}]

\* the speculative enqueue without from += 1
Enqueue_FromNotMoved(q, f, left) == Append(q, f[1])

\* speculatively enqueue b0 to the current next frame: to_next[0] = from[0]
Enqueue(q, f, left) == Append(q, f[Len(f) - left + 1])

\* verify the speculative enqueue: next0 is always the cached next index
vlib_validate_buffer_enqueue_x1(q, next_index, next0) ==
  IF next0 = next_index THEN q ELSE SubSeq(q, 1, Len(q) - 1)

\* the frame is dispatched to the node: latency_node_fn starts with fresh
\* locals, the first vlib_get_next_frame yields a next frame with room for
\* some handles
FrameArrive(F, Room) ==
  /\ n_left_from = 0
  /\ \E f \in F, r \in Room :
       /\ frame' = f
       /\ n_left_from' = Len(f)
       /\ n_left_to_next' = r
  /\ to_next' = <<>>
  /\ delivered' = <<>>
  /\ b_in' = Buffer(NoPkt)
  /\ b0' = Buffer(NoPkt)
  /\ trace' = NoTrace
  /\ UNCHANGED <<now, sessions, hash, wheel>>

\* one iteration of the inner loop on the next buffer of the frame, whose
\* contents are p; when the inner loop ends, vlib_put_next_frame hands the
\* next frame over and the outer loop gets another one
PacketStep(P, Room) ==
  /\ n_left_from > 0
  /\ n_left_to_next > 0
  /\ \E p \in P, r \in Room :
       \E st \in {expire_timers([sessions |-> sessions, hash |-> hash,
                                 wheel |-> wheel], now)} :
       \E slot \in Slots(st.sessions) :
       \E c \in {Inspect(p, st, now, slot)} :
       LET next0 == 0
           q == vlib_validate_buffer_enqueue_x1(
                  Enqueue(to_next, frame, n_left_from), IP4_LOOKUP, next0)
           left_from == n_left_from - 1
           left_to_next == n_left_to_next - 1
           put == left_from = 0 \/ left_to_next = 0
       IN  /\ c.session # 0 =>
                c.sessions[c.session].pkt_count <= MaxPktCount
           /\ sessions' = c.sessions
           /\ hash' = c.hash
           /\ wheel' = c.wheel
           /\ b_in' = Buffer(p)
           /\ b0' = [pkt |-> c.pkt, current_data |-> c.current_data,
                     current_length |-> c.current_length]
           /\ trace' = TraceOf(c, [sessions |-> sessions, hash |-> hash,
                                   wheel |-> wheel], st)
           /\ n_left_from' = left_from
           /\ to_next' = IF put THEN <<>> ELSE q
           /\ delivered' = IF put THEN delivered \o q ELSE delivered
           /\ n_left_to_next' = IF left_from = 0 THEN 0
                                ELSE IF put THEN r ELSE left_to_next
  /\ UNCHANGED <<now, frame>>

\* time passes: the clock moves by one of Steps, up to Max
TickBy(Steps, Max) ==
  /\ \E d \in Steps :
       /\ now + d <= Max
       /\ now' = now + d
  /\ UNCHANGED <<sessions, hash, wheel, frame, n_left_from, to_next,
                 n_left_to_next, delivered, b_in, b0, trace>>

Tick == TickBy(TickSteps, MaxTime)

\* a session is put in state ERROR (by code outside the node function)
SessionError ==
  /\ \E i \in DOMAIN sessions :
       /\ sessions[i].state = LATENCY_STATE_ACTIVE
       /\ sessions' = [sessions EXCEPT ![i].state = LATENCY_STATE_ERROR]
  /\ UNCHANGED <<now, hash, wheel, frame, n_left_from, to_next,
                 n_left_to_next, delivered, b_in, b0, trace>>

Init ==
  /\ now = 0
  /\ sessions = <<>>
  /\ hash = <<>>
  /\ wheel = {}
  /\ frame = <<>>
  /\ n_left_from = 0
  /\ to_next = <<>>
  /\ n_left_to_next = 0
  /\ delivered = <<>>
  /\ b_in = Buffer(NoPkt)
  /\ b0 = Buffer(NoPkt)
  /\ trace = NoTrace

\* TCP traffic of several flows under a running clock
Next ==
  \/ FrameArrive({<<1>>}, {1})
  \/ PacketStep(TimedPackets, {1})
  \/ Tick

Spec == Init /\ [][Next]_vars

\* every transport and every header shape, one flow per transport
NextAll ==
  \/ FrameArrive({<<1>>}, {1})
  \/ PacketStep(AllPackets, {1})

SpecAll == Init /\ [][NextAll]_vars

\* frames of several buffers, next frames with little room
NextFrame ==
  \/ FrameArrive(Frames, 1..MaxFrameLen)
  \/ PacketStep(FramePackets, 1..MaxFrameLen)

SpecFrame == Init /\ [][NextFrame]_vars

\* more flows than the pool is sized for
NextPool ==
  \/ FrameArrive({<<1>>}, {1})
  \/ PacketStep(PoolPackets, {1})

SpecPool == Init /\ [][NextPool]_vars

\* PLUS associations that differ in the CAT only, under a running clock
NextCat ==
  \/ FrameArrive({<<1>>}, {1})
  \/ PacketStep(CatPackets, {1})
  \/ Tick

SpecCat == Init /\ [][NextCat]_vars

\* flows whose keys coincide, sessions that expire one after the other
NextAlias ==
  \/ FrameArrive({<<1>>}, {1})
  \/ PacketStep(AliasPackets, {1})
  \/ TickBy(AliasSteps, MaxAliasTime)

SpecAlias == Init /\ [][NextAlias]_vars

\* TCP traffic of several flows, sessions that turn to state ERROR
NextError ==
  \/ FrameArrive({<<1>>}, {1})
  \/ PacketStep(TimedPackets, {1})
  \/ Tick
  \/ SessionError

SpecError == Init /\ [][NextError]_vars

(***************************************************************************)
(* Properties                                                              *)
(***************************************************************************)
Resolves(i) ==
  /\ get_session_from_key(hash, sessions[i].key) = i
  /\ get_session_from_key(hash, sessions[i].key_reverse) = i

Unresolved(s) == s.key \notin DOMAIN hash /\ s.key_reverse \notin DOMAIN hash

\* C1: every session in the table is found under its key and under its
\* key_reverse, both giving its own index; the keys of a session the timer
\* wheel removed resolve to nothing (unless the packet that triggered the
\* expiry opened a session itself).
C1_KeysResolve ==
  /\ \A i \in DOMAIN sessions : Resolves(i)
  /\ \A l \in trace.lost : ~trace.created => Unresolved(l.session)

\* C2: the buffer cursor and length a packet leaves with are the ones it
\* entered with, on every path through the loop.
C2_CursorRestored ==
  /\ b0.current_data = b_in.current_data
  /\ b0.current_length = b_in.current_length

\* a QUIC long-header packet of an existing session went through the whole
\* pipeline: 45 bytes were stepped over and stepped back
C2_Witness ==
  /\ trace.path = P_QUIC
  /\ trace.rearmed
  /\ ~trace.created
  /\ trace.total_advance =
       LEN_UDP + SIZE_TYPE + SIZE_ID + SIZE_NUMBER_32 + SIZE_VERSION
  /\ b0.current_data = ENTRY_DATA

\* C3: the handles handed to ip4-lookup plus those in the next frame being
\* filled are exactly the handles processed so far, in frame order; when the
\* function returns, the whole frame has been handed over.
C3_HandedOnceInOrder ==
  /\ delivered \o to_next = SubSeq(frame, 1, Len(frame) - n_left_from)
  /\ n_left_from = 0 => delivered = frame

\* a frame of three buffers in a shuffled order has been handed over whole,
\* its last packet having failed to parse
C3_Witness ==
  /\ frame = <<3, 1, 2>>
  /\ n_left_from = 0
  /\ delivered = frame
  /\ trace.why = "bad-options"

\* C4: no session is removed before its timer entry is due, and a session
\* whose timer entry is not yet due (it was created or re-armed less than
\* TIMEOUT ticks ago) is in the table and found under both of its keys.
C4_LiveUntilTimeout ==
  /\ \A l \in trace.lost : \A x \in l.expiry : x <= trace.t
  /\ \A e \in wheel :
       now < e[1] => e[2] \in DOMAIN sessions /\ Resolves(e[2])

\* C5: once the clock is a tick past a session's expiry, the session's keys
\* resolve to nothing, packets or no packets.
C5_RemovedAfterTimeout ==
  \A e \in wheel :
    (e[2] \in DOMAIN sessions /\ now >= e[1] + 1)
      => Unresolved(sessions[e[2]])

\* C6: a packet that resolves to a session and does not come from the
\* session's initiator leaves with the address the initiator first sent to
\* as its source and the initiator's address as its destination.
C6_ReverseRewrite ==
  IF trace.session # 0
  THEN LET s == sessions[trace.session]
       IN  b_in.pkt.src # s.init_src_ip
             => b0.pkt.src = s.first_dst /\ b0.pkt.dst = s.init_src_ip
  ELSE TRUE

\* C7: a packet that resolves to a session but is neither from its initiator
\* nor from its backend leaves unchanged, and leaves the session's record
\* and timer as they were.
C7_MismatchLeavesSession ==
  trace.nat = "mismatch"
    => /\ b0.pkt = b_in.pkt
       /\ sessions[trace.session] = trace.pre
       /\ {e[1] : e \in {x \in wheel : x[2] = trace.session}}
            = trace.pre_expiry

\* C8: a TCP packet whose options do not parse, on a flow that has a
\* session, feeds no estimator but is rewritten and re-summed as that
\* session rewrites its packets.
C8_BadOptionsStillRewritten ==
  LET p == b_in.pkt
      kv == make_key(p.src, p.dst, p.sport, p.dport, p.protocol)
  IN  (trace.why = "bad-options" /\ kv \in DOMAIN hash)
        => LET s == sessions[hash[kv]]
               n == ip_nat_translation(p, s.init_src_ip, s.new_dst_ip)
           IN  /\ ~trace.est_called
               /\ n.ok => /\ b0.pkt.src = n.pkt.src
                          /\ b0.pkt.dst = n.pkt.dst
                          /\ trace.csum_done

\* bytes of a QUIC header, type byte to measurement byte
QuicHeaderLen(qtype) ==
  IF BitSet(qtype, IS_LONG)
  THEN SIZE_TYPE + SIZE_ID + SIZE_NUMBER_32 + SIZE_VERSION + SIZE_LATENCY_SPIN
  ELSE LET n == qtype % (LATENCY_TYPE + 1)
       IN  SIZE_TYPE
             + (IF BitSet(qtype, HAS_ID) THEN SIZE_ID ELSE 0)
             + (IF n = P_NUMBER_8 THEN SIZE_NUMBER_8
                ELSE IF n = P_NUMBER_16 THEN SIZE_NUMBER_16
                ELSE IF n = P_NUMBER_32 THEN SIZE_NUMBER_32
                ELSE 0)
             + SIZE_LATENCY_SPIN

\* C9: the QUIC parser loads nothing past the end of the buffer, and a
\* packet too short for the header its type byte announces is skipped: it
\* opens no session and feeds no estimator.
C9_QuicNoOverread ==
  trace.path = P_QUIC
    => /\ ~trace.overread
       /\ b_in.pkt.len - LEN_UDP < QuicHeaderLen(b_in.pkt.qtype)
            => ~trace.created /\ ~trace.est_called

\* C10: a packet that leaves with an address or the hop count changed
\* leaves with a transport checksum that covers its bytes, and with an
\* IPv4 header checksum that covers its addresses.
C10_ChecksumsValid ==
  LET i == b_in.pkt
      o == b0.pkt
  IN  (o.src # i.src \/ o.dst # i.dst \/ o.hop_c # i.hop_c)
        => /\ o.l4_csum = ip4_tcp_udp_compute_checksum(o)
           /\ o.ip_csum = ip4_header_checksum(o)

(***************************************************************************)
(* Properties of one step of the loop                                      *)
(***************************************************************************)
\* the step is an iteration of the inner loop
IsPacketStep == n_left_from' = n_left_from - 1

\* the table as the iteration finds it, after expire_timers
PostExpiry ==
  expire_timers([sessions |-> sessions, hash |-> hash, wheel |-> wheel], now)

\* the forward key the loop builds for packet p on the given path
KeyOf(p, path) ==
  IF path = P_PLUS
  THEN make_plus_key(p.src, p.dst, p.sport, p.dport, p.protocol, p.cat)
  ELSE make_key(p.src, p.dst, p.sport, p.dport, p.protocol)

\* the expiry ticks the wheel w holds for session i
ExpiryOf(w, i) == {e[1] : e \in {x \in w : x[2] = i}}

\* C11: a session is created only by a packet whose key has no session and
\* whose destination port is in the destination map; a packet without
\* session to an unmapped port changes neither pool, table nor wheel and
\* leaves as it came; every session holds the backend of the destination
\* port of its first packet.
C11_CreatedOnlyForMappedPort ==
  /\ [](\A i \in DOMAIN sessions :
          /\ sessions[i].new_dst_ip # 0
          /\ sessions[i].new_dst_ip = get_new_dst(sessions[i].first_dport))
  /\ [][IsPacketStep =>
          LET st == PostExpiry
              p == b_in'.pkt
              kv == KeyOf(p, trace'.path)
          IN  /\ trace'.created =>
                   /\ kv \notin DOMAIN st.hash
                   /\ get_new_dst(p.dport) # 0
              /\ ~trace'.created => DOMAIN sessions' = DOMAIN st.sessions
              /\ trace'.why = "unknown-destination" =>
                   /\ sessions' = st.sessions
                   /\ hash' = st.hash
                   /\ wheel' = st.wheel
                   /\ b0'.pkt = p]_vars

\* a QUIC packet to an unmapped port found no session and was skipped
\* while other flows have sessions
C11_Witness ==
  /\ trace.why = "unknown-destination"
  /\ trace.path = P_QUIC
  /\ ~trace.created
  /\ DOMAIN sessions # {}

\* the path a packet with complete headers takes
PathOf(p) ==
  IF p.protocol = TCP_PROTOCOL THEN P_TCP
  ELSE IF is_quic(p.sport, p.dport) THEN P_QUIC
  ELSE P_PLUS

\* the packet carries the whole of the headers its path parses
WellFormed(p) ==
  /\ p.ver = 4
  /\ p.protocol \in {TCP_PROTOCOL, UDP_PROTOCOL}
  /\ PathOf(p) = P_TCP => p.len >= LEN_TCP /\ p.opts_ok
  /\ PathOf(p) = P_QUIC =>
       /\ p.len - LEN_UDP >= QuicHeaderLen(p.qtype)
       /\ \/ BitSet(p.qtype, IS_LONG)
          \/ p.qtype % (LATENCY_TYPE + 1)
               \in {P_NUMBER_8, P_NUMBER_16, P_NUMBER_32}
  /\ PathOf(p) = P_PLUS => p.len - LEN_UDP >= SIZE_PLUS /\ p.magic_ok

\* C12: the first packet of an unknown flow to a port mapped to backend B
\* creates a session of the packet's protocol variant with the packet's
\* source address and port and with B; after the packet the session's
\* pkt_count is 2 and the packet leaves with destination B.
C12_FirstPacketCreates ==
  [][IsPacketStep =>
       LET st == PostExpiry
           p == b_in'.pkt
           B == get_new_dst(p.dport)
       IN  (/\ WellFormed(p)
            /\ KeyOf(p, PathOf(p)) \notin DOMAIN st.hash
            /\ B # 0)
             => /\ trace'.created
                /\ trace'.session \in DOMAIN sessions'
                /\ LET s == sessions'[trace'.session]
                   IN  /\ s.p_type = PathOf(p)
                       /\ s.init_src_ip = p.src
                       /\ s.init_src_port = p.sport
                       /\ s.new_dst_ip = B
                       /\ s.pkt_count = 2
                /\ b0'.pkt.dst = B]_vars

\* a PLUS packet opened a session next to the TCP and QUIC sessions and
\* left for the backend
C12_Witness ==
  /\ trace.created
  /\ trace.path = P_PLUS
  /\ Cardinality(DOMAIN sessions) = 3
  /\ sessions[trace.session].pkt_count = 2
  /\ b_in.pkt.dst = IP_SERVICE
  /\ b0.pkt.dst = IP_BACKEND

\* C13 as stated: the pkt_count of every session is the number of its
\* packets that reached the increment step.
C13_CountIsPacketsCounted ==
  \A i \in DOMAIN sessions : sessions[i].pkt_count = sessions[i].reached

\* C13: the pkt_count of every session is one (its value at creation) plus
\* the number of its packets that reached the increment step; a packet
\* that reaches the step adds exactly one to the session it resolved to,
\* and nothing else changes the pkt_count of a session.
C13_CountIsOnePlusPacketsCounted ==
  /\ [](\A i \in DOMAIN sessions :
          sessions[i].pkt_count = 1 + sessions[i].reached)
  /\ [][LET st == IF IsPacketStep
                  THEN PostExpiry
                  ELSE [sessions |-> sessions, hash |-> hash, wheel |-> wheel]
        IN  \A i \in (DOMAIN st.sessions) \cap (DOMAIN sessions') :
              ~(trace'.created /\ trace'.session = i) =>
                sessions'[i].pkt_count =
                  st.sessions[i].pkt_count
                    + (IF IsPacketStep /\ trace'.counted /\ trace'.session = i
                       THEN 1 ELSE 0)]_vars

\* a session's second packet was counted while another session, with one
\* packet counted, was left alone
C13_Witness ==
  /\ Cardinality(DOMAIN sessions) = 2
  /\ trace.counted
  /\ ~trace.created
  /\ sessions[trace.session].pkt_count = 3
  /\ \E i \in DOMAIN sessions : sessions[i].pkt_count = 2

\* C14: init_src_ip, init_src_port and new_dst_ip of a session are the same
\* after every step as before it, from the packet after the one that
\* created the session until the timer wheel removes it.
C14_InitFieldsFrozen ==
  [][LET st == IF IsPacketStep
               THEN PostExpiry
               ELSE [sessions |-> sessions, hash |-> hash, wheel |-> wheel]
     IN  \A i \in (DOMAIN st.sessions) \cap (DOMAIN sessions') :
           ~(trace'.created /\ trace'.session = i) =>
             /\ sessions'[i].init_src_ip = st.sessions[i].init_src_ip
             /\ sessions'[i].init_src_port = st.sessions[i].init_src_port
             /\ sessions'[i].new_dst_ip = st.sessions[i].new_dst_ip]_vars

\* a session has seen a packet from its backend, rewritten in the reverse
\* direction, and still holds the initiator's address and port
C14_Witness ==
  /\ trace.nat = "reverse"
  /\ ~trace.created
  /\ b_in.pkt.sport # sessions[trace.session].init_src_port
  /\ sessions[trace.session].init_src_ip = IP_INIT_A
  /\ sessions[trace.session].init_src_port = PORT_CLIENT
  /\ sessions[trace.session].new_dst_ip = IP_BACKEND

\* C15: a PLUS packet with the magic, on a flow that has a session, leaves
\* with its hop count one higher (modulo 256) when EXTENDED is set, at least
\* 3 bytes follow the 20-byte PLUS header, PCF_type is 1 and II is 0, and
\* with its hop count unchanged in every other case.
C15_HopCount ==
  (trace.path = P_PLUS /\ b_in.pkt.magic_ok /\ trace.session # 0)
    => LET p == b_in.pkt
           follow == p.len - LEN_UDP - SIZE_PLUS
       IN  b0.pkt.hop_c =
             IF /\ p.extended
                /\ follow >= SIZE_PLUS_EXT_HELLO
                /\ p.pcf_type = 1
                /\ p.ii = 0
             THEN (p.hop_c + 1) % U8
             ELSE p.hop_c

\* C16: with the session pool full, the first packet of a new flow to a
\* mapped port leaves pool, table and timer wheel as they were and leaves
\* unchanged itself; no step other than timer expiry takes a session out
\* of the pool.
C16_PoolFullSkips ==
  [][IsPacketStep =>
       LET st == PostExpiry
           p == b_in'.pkt
       IN  /\ (DOMAIN st.sessions) \subseteq (DOMAIN sessions')
           /\ (/\ PoolFull(st.sessions)
               /\ WellFormed(p)
               /\ KeyOf(p, PathOf(p)) \notin DOMAIN st.hash
               /\ get_new_dst(p.dport) # 0)
                => /\ sessions' = st.sessions
                   /\ hash' = st.hash
                   /\ wheel' = st.wheel
                   /\ b0'.pkt = p]_vars

\* the sessions in the pool whose timer is not due
Live == {i \in DOMAIN sessions : \A x \in ExpiryOf(wheel, i) : x > now}

\* C17: no two live sessions have the same forward key.
C17_OneSessionPerForwardKey ==
  \A i, j \in Live : i # j => sessions[i].key # sessions[j].key

\* C18: a PLUS packet resolves to a session of its own CAT, and opens one
\* when no session has its CAT, whatever sessions the same UDP 4-tuple has
\* under other CATs; the packet leaves every other session, its pkt_count,
\* estimator and timer, as they were.
C18_CatSeparatesFlows ==
  /\ []((trace.path = P_PLUS /\ trace.session \in DOMAIN sessions)
          => /\ sessions[trace.session].p_type = P_PLUS
             /\ sessions[trace.session].cat = b_in.pkt.cat)
  /\ [][IsPacketStep =>
          LET st == PostExpiry
              p == b_in'.pkt
          IN  /\ (/\ PathOf(p) = P_PLUS
                  /\ WellFormed(p)
                  /\ get_new_dst(p.dport) # 0
                  /\ \A i \in DOMAIN st.sessions :
                       st.sessions[i].cat # p.cat)
                   => trace'.created
              /\ \A i \in DOMAIN st.sessions :
                   i # trace'.session =>
                     /\ i \in DOMAIN sessions'
                     /\ sessions'[i] = st.sessions[i]
                     /\ ExpiryOf(wheel', i) = ExpiryOf(st.wheel, i)]_vars

\* two associations on one UDP 4-tuple have a session each; a later packet
\* of CAT 2 was counted and re-armed on its own session, while the session
\* of CAT 1 keeps the count and the timer of its first packet
C18_Witness ==
  /\ Cardinality(DOMAIN sessions) = 2
  /\ trace.path = P_PLUS
  /\ ~trace.created
  /\ trace.rearmed
  /\ b_in.pkt.cat = 2
  /\ now > 0
  /\ \E i, j \in DOMAIN sessions :
       /\ i # j
       /\ j = trace.session
       /\ sessions[i].cat = 1
       /\ sessions[j].cat = 2
       /\ sessions[i].key[1] = sessions[j].key[1]
       /\ sessions[i].pkt_count = 2
       /\ sessions[j].pkt_count = 3
       /\ ExpiryOf(wheel, i) = {TIMEOUT}
       /\ ExpiryOf(wheel, j) = {now + TIMEOUT}

\* C19: a TCP segment with SYN and ACK set (whose options parse) feeds no
\* estimator, and is otherwise handled like any segment: it resolves to the
\* session of its flow or opens one when its port is mapped, it is counted,
\* and when the rewrite applies it is rewritten, re-summed and re-arms the
\* timer.
C19_SynAckNotMeasured ==
  LET p == b_in.pkt
      i == trace.session
  IN  (trace.path = P_TCP /\ p.syn /\ p.ack /\ p.opts_ok)
        => /\ ~trace.est_called
           /\ get_new_dst(p.dport) # 0 => i # 0
           /\ i \in DOMAIN sessions
                => /\ sessions[i].est = IF trace.created THEN 0
                                        ELSE trace.pre.est
                   /\ trace.counted
                   /\ sessions[i].pkt_count = IF trace.created THEN 2
                                              ELSE trace.pre.pkt_count + 1
                   /\ LET n == ip_nat_translation(p, sessions[i].init_src_ip,
                                                  sessions[i].new_dst_ip)
                      IN  n.ok => /\ b0.pkt.src = n.pkt.src
                                  /\ b0.pkt.dst = n.pkt.dst
                                  /\ trace.csum_done
                                  /\ b0.pkt.l4_csum =
                                       ip4_tcp_udp_compute_checksum(b0.pkt)
                                  /\ b0.pkt.ip_csum =
                                       ip4_header_checksum(b0.pkt)
                                  /\ trace.rearmed
                                  /\ ExpiryOf(wheel, i) = {trace.t + TIMEOUT}

\* a SYN+ACK from the backend, on a session that has taken one sample, was
\* counted, rewritten in the reverse direction and re-armed the timer; the
\* estimator still has its one sample
C19_Witness ==
  /\ trace.path = P_TCP
  /\ b_in.pkt.syn /\ b_in.pkt.ack
  /\ ~trace.created
  /\ trace.nat = "reverse"
  /\ trace.t > 0
  /\ trace.rearmed
  /\ sessions[trace.session].est = 1
  /\ sessions[trace.session].pkt_count = 3

\* C20: a packet sets the expiry of a session to now + TIMEOUT exactly when
\* it resolves to the session, is rewritten (forward or reverse) and the
\* session is ACTIVE; a packet on a session in state ERROR, a packet
\* skipped before the re-arm step, a packet of another session and the
\* passing of time leave the expiry of the session as it was.
C20_RearmedWhenActive ==
  [][IF IsPacketStep
     THEN LET st == PostExpiry
          IN  \A i \in DOMAIN st.sessions :
                ~(trace'.created /\ trace'.session = i) =>
                  ExpiryOf(wheel', i) =
                    IF /\ trace'.session = i
                       /\ trace'.nat \in {"forward", "reverse"}
                       /\ st.sessions[i].state = LATENCY_STATE_ACTIVE
                    THEN {now + TIMEOUT}
                    ELSE ExpiryOf(st.wheel, i)
     ELSE wheel' = wheel]_vars

\* a packet of the initiator resolved to a session in state ERROR at tick
\* 299 and was rewritten; the session still expires at tick 300
C20_Witness ==
  /\ trace.session \in DOMAIN sessions
  /\ sessions[trace.session].state = LATENCY_STATE_ERROR
  /\ trace.nat = "forward"
  /\ trace.csum_done
  /\ ~trace.rearmed
  /\ trace.t = TIMEOUT - 1
  /\ ExpiryOf(wheel, trace.session) = {TIMEOUT}

\* the sessions in the pool whose timer is due at the current time
Due == {i \in DOMAIN sessions : \E x \in ExpiryOf(wheel, i) : x <= now}

\* C21: the timer wheel is advanced before the lookup of every packet: no
\* packet resolves to, is counted on or re-arms a session whose expiry is at
\* or before the time the packet arrives, and no such session is left in
\* the pool; a packet whose key led to such a session finds no session and,
\* when its destination port is mapped, opens a fresh one, whose pkt_count
\* starts again at 1 and is 2 after the packet.
C21_ExpiryBeforeLookup ==
  [][IsPacketStep =>
       LET p == b_in'.pkt
           kv == KeyOf(p, PathOf(p))
           i == trace'.session
       IN  /\ (DOMAIN sessions') \cap Due
                \subseteq (IF trace'.created THEN {i} ELSE {})
           /\ (i # 0 /\ ~trace'.created) => i \notin Due
           /\ (/\ WellFormed(p)
               /\ get_session_from_key(hash, kv) \in Due)
                => IF get_new_dst(p.dport) # 0
                   THEN /\ trace'.created
                        /\ sessions'[i].pkt_count = 2
                        /\ sessions'[i].reached = 1
                        /\ sessions'[i].est <= 1
                        /\ ExpiryOf(wheel', i) = {now + TIMEOUT}
                   ELSE /\ i = 0
                        /\ ~trace'.counted
                        /\ ~trace'.rearmed]_vars

\* at tick 300 a packet of a flow whose session was due at tick 300 found
\* no session and opened a fresh one; the old session had counted two
\* packets
C21_Witness ==
  /\ trace.created
  /\ trace.t = TIMEOUT
  /\ sessions[trace.session].pkt_count = 2
  /\ \E l \in trace.lost :
       /\ l.session.key = sessions[trace.session].key
       /\ l.session.pkt_count = 3
       /\ l.expiry = {TIMEOUT}

\* C22: for every packet that resolves to a session and is rewritten, the
\* direction the estimator takes (forward iff the source port is the
\* session's init_src_port) is the direction of the rewrite (forward iff
\* the source address is the session's init_src_ip).
C22_DirectionsAgree ==
  (trace.session \in DOMAIN sessions /\ trace.nat \in {"forward", "reverse"})
    => LET s == sessions[trace.session]
           p == b_in.pkt
       IN  /\ (p.sport = s.init_src_port) <=> (p.src = s.init_src_ip)
           /\ (p.sport = s.init_src_port) <=> (trace.nat = "forward")
           /\ trace.est_called => trace.est_dir = trace.nat

\* C23: every session in the pool has exactly one entry in the timer wheel,
\* due no later than TIMEOUT ticks from now, and every entry of the wheel
\* belongs to a session in the pool: no session is without a pending
\* expiry.
C23_OneTimerPerSession ==
  /\ \A i \in DOMAIN sessions :
       /\ Cardinality(ExpiryOf(wheel, i)) = 1
       /\ \A x \in ExpiryOf(wheel, i) : x <= now + TIMEOUT
  /\ \A e \in wheel : e[2] \in DOMAIN sessions
  /\ Cardinality(wheel) = Cardinality(DOMAIN sessions)

\* of two sessions started at tick 0, one was re-armed by a packet at tick
\* 299 and the other, in state ERROR, saw a packet at tick 299 and keeps
\* the entry of its start
C23_Witness ==
  /\ now = TIMEOUT - 1
  /\ Cardinality(DOMAIN sessions) = 2
  /\ \E i, j \in DOMAIN sessions :
       /\ sessions[i].state = LATENCY_STATE_ACTIVE
       /\ sessions[i].pkt_count = 3
       /\ ExpiryOf(wheel, i) = {now + TIMEOUT}
       /\ sessions[j].state = LATENCY_STATE_ERROR
       /\ sessions[j].pkt_count = 3
       /\ ExpiryOf(wheel, j) = {TIMEOUT}

=============================================================================
